---- MODULE Spec2Model ----
(***************************************************************************)
(* petl.transform.validation: validate / ProblemsView / iterproblems.      *)
(*                                                                         *)
(* A ProblemsView holds a table, a list of constraint dicts and an         *)
(* expected header.  Every __iter__ starts a new generator (a "pass");     *)
(* every next() on a generator runs it from the point where it is          *)
(* suspended to its next yield, to its end, or to an uncaught exception.   *)
(*                                                                         *)
(* Python values are tagged tuples, so that values of different Python     *)
(* types never compare equal: None, int, str, bool, tuple, Record.         *)
(***************************************************************************)
EXTENDS Integers, Sequences, FiniteSets, TLC

VARIABLES table, constraints, header, passes

vars == <<table, constraints, header, passes>>

(***************************************************************************)
(* Bounds of the model.                                                    *)
(***************************************************************************)
MaxRows == 2
MaxConstraints == 2
MaxPasses == 2

(***************************************************************************)
(* Python values.                                                          *)
(***************************************************************************)
NoneV == <<"None">>
IntV(n) == <<"int", n>>
StrV(s) == <<"str", s>>
BoolV(b) == <<"bool", b>>
TupV(s) == <<"tuple", s>>
RecV(s) == <<"Record", s>>
\* a key that a dict does not have
ABSENT == <<"absent">>

IsInt(v) == v[1] = "int"
IsStr(v) == v[1] = "str"
IsBool(v) == v[1] = "bool"
IsSeqV(v) == v[1] = "tuple" \/ v[1] = "Record"

\* mutant of Truthy: only None is falsy
TruthyNotNone(v) == v # NoneV

\* bool(v): None, 0, False, '' and empty sequences are falsy
Truthy(v) ==
    CASE v = NoneV -> FALSE
      [] IsInt(v) -> v[2] # 0
      [] IsBool(v) -> v[2]
      [] IsStr(v) -> v[2] # ""
      [] IsSeqV(v) -> Len(v[2]) > 0
      [] OTHER -> TRUE

DigitStr == <<"0", "1", "2", "3", "4", "5", "6", "7", "8", "9">>

\* str(n) of a small non-negative int
IntStr(n) == DigitStr[n + 1]

\* text_type(v): the text of a header field
text_type(v) ==
    CASE IsStr(v) -> v
      [] IsInt(v) -> StrV(IntStr(v[2]))
      [] OTHER -> StrV("None")

\* list(map(text_type, hdr))
MapText(hdr) == [k \in 1..Len(hdr) |-> text_type(hdr[k])]

\* x in lst, for a Python list lst
InList(x, lst) == \E k \in 1..Len(lst) : lst[k] = x

\* lst.index(x): 0-based position of the first occurrence
ListIndex(x, lst) == (CHOOSE k \in 1..Len(lst) : lst[k] = x /\ \A j \in 1..(k-1) : lst[j] # x) - 1

(***************************************************************************)
(* Outcome of a call: a returned value or a raised exception.              *)
(***************************************************************************)
Ok(v) == <<"ok", v>>
Raise(e) == <<"raise", e>>
Raised(o) == o[1] = "raise"

(***************************************************************************)
(* The user callables of the inputs, each a Python callable:               *)
(*   int       the builtin int                                             *)
(*   enum      lambda v: v in (1, 'Y')                                     *)
(*   not_none  lambda row: None not in row                                 *)
(*   noop      lambda v: None                                              *)
(*   g_second  lambda row: tuple(row)[1]          (a pre-supplied getter)  *)
(***************************************************************************)
IsNumeral(s) == \E k \in 1..Len(DigitStr) : DigitStr[k] = s

Call(fn, v) ==
    CASE fn = "int" ->
            IF IsInt(v) \/ IsBool(v) THEN Ok(v)
            ELSE IF IsStr(v) THEN (IF IsNumeral(v[2]) THEN Ok(v) ELSE Raise("ValueError"))
            ELSE Raise("TypeError")
      [] fn = "enum" -> Ok(BoolV(v = IntV(1) \/ v = StrV("Y")))
      [] fn = "not_none" ->
            IF IsSeqV(v) THEN Ok(BoolV(~InList(NoneV, v[2]))) ELSE Raise("TypeError")
      [] fn = "noop" -> Ok(NoneV)
      [] fn = "g_second" ->
            IF IsSeqV(v) /\ Len(v[2]) >= 2 THEN Ok(v[2][2]) ELSE Raise("IndexError")
      [] OTHER -> Raise("TypeError")

(***************************************************************************)
(* Constraints: a dict with the keys name, field, optional, getter, test   *)
(* and assertion, each possibly ABSENT.  A callable is Fn(its name).       *)
(***************************************************************************)
ListV(s) == <<"list", s>>
Fn(f) == <<"fn", f>>
ItemGetter(idx) == <<"itemgetter", idx>>

\* d.get(key, None) has been applied: a missing key reads as None
Get(v) == IF v = ABSENT THEN NoneV ELSE v

\* a constraints argument that is None or an empty list is falsy
HasConstraints(cs) == cs # NoneV /\ Len(cs[2]) > 0

\* asindices(flds, spec) of petl.util.base: the positions (from 0) of the
\* field name(s) of spec in flds, or FieldSelectionError for a missing name
SpecList(spec) == IF spec[1] = "tuple" THEN spec[2] ELSE <<spec>>

asindices(flds, spec) ==
    LET names == SpecList(spec)
    IN IF \A k \in 1..Len(names) : InList(names[k], flds)
       THEN Ok([k \in 1..Len(names) |-> ListIndex(names[k], flds)])
       ELSE Raise("FieldSelectionError")

\* "setup getters" for one working constraint: the constraint afterwards,
\* or the exception that leaves the generator
CompileOne(c, flds) ==
    IF c.getter # ABSENT THEN Ok(c)
    ELSE IF c.field = ABSENT THEN Ok(c)
    ELSE IF ~InList(c.field, flds) /\ c.optional = ABSENT THEN Raise("KeyError")
    ELSE IF ~InList(c.field, flds) /\ Truthy(c.optional) THEN Ok(c)
    ELSE LET ix == asindices(flds, c.field)
         IN IF Raised(ix) THEN ix
            ELSE Ok([c EXCEPT !.getter = ItemGetter(ix[2])])

\* mutant of CompileFrom: one getter variable is shared, so the getter built
\* for a constraint is also stored in the constraints compiled before it
RECURSIVE CompileFromShared(_, _, _)
CompileFromShared(work, k, flds) ==
    IF k > Len(work) THEN [work |-> work, err |-> ""]
    ELSE LET o == CompileOne(work[k], flds)
         IN IF Raised(o) THEN [work |-> work, err |-> o[2]]
            ELSE CompileFromShared(
                     [j \in 1..Len(work) |->
                         IF j = k THEN o[2]
                         ELSE IF j < k /\ o[2].getter # ABSENT
                              THEN [work[j] EXCEPT !.getter = o[2].getter]
                              ELSE work[j]],
                     k + 1, flds)

RECURSIVE CompileFrom(_, _, _)
CompileFrom(work, k, flds) ==
    IF k > Len(work) THEN [work |-> work, err |-> ""]
    ELSE LET o == CompileOne(work[k], flds)
         IN IF Raised(o) THEN [work |-> work, err |-> o[2]]
            ELSE CompileFrom([work EXCEPT ![k] = o[2]], k + 1, flds)

\* mutant of Compile: the getters are attached to the caller's own dicts
CompileInPlace(cs, flds) ==
    IF ~HasConstraints(cs) THEN [caller |-> cs, work |-> cs, err |-> ""]
    ELSE LET r == CompileFrom(cs[2], 1, flds)
         IN [caller |-> ListV(r.work), work |-> ListV(r.work), err |-> r.err]

\* lines 107-118: caller is the caller's constraints argument afterwards,
\* work the generator's own constraints variable, err the exception raised
Compile(cs, flds) ==
    IF ~HasConstraints(cs) THEN [caller |-> cs, work |-> cs, err |-> ""]
    ELSE LET r == CompileFrom(cs[2], 1, flds)
         IN [caller |-> cs, work |-> ListV(r.work), err |-> r.err]

\* Record.__getitem__ with an int: a position past the end of a short row
\* reads as the missing value None
RecordItem(row, idx) == IF idx < Len(row) THEN row[idx + 1] ELSE NoneV

\* getter(row) for constraint.get('getter', lambda x: x)
ApplyGetter(getter, row) ==
    CASE getter = ABSENT -> Ok(RecV(row))
      [] getter[1] = "itemgetter" ->
            IF Len(getter[2]) = 1 THEN Ok(RecordItem(row, getter[2][1]))
            ELSE Ok(TupV([k \in 1..Len(getter[2]) |-> RecordItem(row, getter[2][k])]))
      [] OTHER -> Call(getter[2], RecV(row))

(***************************************************************************)
(* The generator iterproblems.  A pass is the frame of one generator:      *)
(*   pc      where it is suspended: "start" (created, not yet run), the    *)
(*           yield it stopped at ("outhdr", "header", "len", "getter",     *)
(*           "test", "assertion"), "done" (StopIteration) or "raised" (an  *)
(*           exception left the generator)                                 *)
(*   pulled  the number of rows next(it) has returned, the header included *)
(*   flds, cons, i, c, row, target   the local variables flds,             *)
(*           constraints, i, the position of constraint in constraints,    *)
(*           row and target                                                *)
(*   out     the records the consumer has received                         *)
(*   err     the exception that left the generator                         *)
(*   sites   history: for every record of out, the yield that produced it  *)
(*           as <<site, row index, constraint position>>                   *)
(*   calls   history: the calls made to the getters, tests and assertions  *)
(*           as <<site, row index, constraint position>>                   *)
(***************************************************************************)
outhdr == <<StrV("name"), StrV("row"), StrV("field"), StrV("value"), StrV("error")>>

Problem(name, row, field, value, error) == <<name, IntV(row), field, value, StrV(error)>>

\* mutants of ErrorName: the exception's type is dropped; a symbolic kind is reported
ErrorNameFixed(o) == "AssertionError"
ErrorNameSymbolic(o) == IF Raised(o) THEN "TestFailure" ELSE "AssertionFailure"

\* type(e).__name__ of the exception caught at a failure site, o being the
\* outcome of the call or of the asserted expression: an assert of a falsy
\* value raises AssertionError
ErrorName(o) == IF Raised(o) THEN o[2] ELSE "AssertionError"

\* mutant of NewPass: the table's header is pulled before the first next()
NewPassEager ==
    [pc |-> "start", pulled |-> 1, flds |-> <<>>, cons |-> NoneV, i |-> 0, c |-> 0,
     row |-> <<>>, target |-> NoneV, out |-> <<>>, err |-> "", sites |-> <<>>,
     calls |-> <<>>]

\* iterproblems(table, constraints, expected_header), not yet run
NewPass ==
    [pc |-> "start", pulled |-> 0, flds |-> <<>>, cons |-> NoneV, i |-> 0, c |-> 0,
     row |-> <<>>, target |-> NoneV, out |-> <<>>, err |-> "", sites |-> <<>>,
     calls |-> <<>>]

\* mutant of ConstraintAt: the constraints are visited last to first
ConstraintAtReversed(cons, c) == cons[2][Len(cons[2]) + 1 - c]

\* the constraint of the c-th turn of "for constraint in constraints"
ConstraintAt(cons, c) == cons[2][c]

\* mutant of EffectiveFlds: the table's own header stays the field list
EffectiveFldsActual(expected_flds, actual_flds) == actual_flds

\* line 104: with an expected header, flds = expected_flds
EffectiveFlds(expected_flds, actual_flds) == expected_flds

\* the generator stops at a yield
Yield(g, site, rec) ==
    [g EXCEPT !.pc = site, !.out = Append(@, rec),
              !.sites = Append(@, <<site, IF site \in {"outhdr", "header"} THEN 0 ELSE g.i + 1,
                                    IF site \in {"outhdr", "header", "len"} THEN 0 ELSE g.c>>)]

Called(g, site) == [g EXCEPT !.calls = Append(@, <<site, g.i + 1, g.c>>)]

RECURSIVE Scan(_, _, _)
\* lines 122-160, the loop going on without a yield: the frame the
\* statements so far have left is a value, worked out once, and the scan
\* continues from it at the point `stage`
ScanOn(frame, stage, t) == CHOOSE r \in {Scan(g, stage, t) : g \in {frame}} : TRUE

\* lines 122-160, from the point `stage` of the loop to the next yield or to
\* the end of the table: "pull" is the head of the for loop, "cons" the head
\* of the loop over the constraints, "test" and "assertion" the two checks
\* of constraint g.c after its target has been extracted
Scan(g, stage, t) ==
    CASE stage = "pull" ->
            IF g.pulled > Len(t.rows) THEN [g EXCEPT !.pc = "done"]
            ELSE LET row == t.rows[g.pulled]
                     g1 == [g EXCEPT !.pulled = @ + 1, !.i = g.pulled - 1, !.row = row, !.c = 1]
                 IN IF Len(row) # Len(g.flds)
                    THEN Yield(g1, "len",
                               Problem(StrV("__len__"), g1.i + 1, NoneV, IntV(Len(row)),
                                       ErrorName(Ok(BoolV(FALSE)))))
                    ELSE ScanOn(g1, "cons", t)
      [] stage = "cons" ->
            IF ~HasConstraints(g.cons) \/ g.c > Len(g.cons[2]) THEN ScanOn(g, "pull", t)
            ELSE LET k == ConstraintAt(g.cons, g.c)
                     o == ApplyGetter(k.getter, g.row)
                     g1 == Called(g, "getter")
                 IN IF Raised(o)
                    THEN Yield(g1, "getter",
                               Problem(Get(k.name), g.i + 1, Get(k.field), NoneV, ErrorName(o)))
                    ELSE ScanOn([g1 EXCEPT !.target = o[2]], "test", t)
      [] stage = "test" ->
            LET k == ConstraintAt(g.cons, g.c)
                value == IF Truthy(Get(k.field)) THEN g.target ELSE NoneV
            IN IF Get(k.test) = NoneV THEN ScanOn(g, "assertion", t)
               ELSE LET o == Call(k.test[2], g.target)
                        g1 == Called(g, "test")
                    IN IF Raised(o)
                       THEN Yield(g1, "test",
                                  Problem(Get(k.name), g.i + 1, Get(k.field), value, ErrorName(o)))
                       ELSE ScanOn(g1, "assertion", t)
      [] stage = "assertion" ->
            LET k == ConstraintAt(g.cons, g.c)
                value == IF Truthy(Get(k.field)) THEN g.target ELSE NoneV
                nxt == [g EXCEPT !.c = @ + 1]
            IN IF Get(k.assertion) = NoneV THEN ScanOn(nxt, "cons", t)
               ELSE LET o == Call(k.assertion[2], g.target)
                        g1 == Called(g, "assertion")
                    IN IF Raised(o) \/ ~Truthy(o[2])
                       THEN Yield(g1, "assertion",
                                  Problem(Get(k.name), g.i + 1, Get(k.field), value, ErrorName(o)))
                       ELSE ScanOn([g1 EXCEPT !.c = @ + 1], "cons", t)

\* lines 104-121: flds is bound, the getters are set up, the row loop starts;
\* the result is the frame and the caller's constraints afterwards
Setup(g, flds, t, cs) ==
    LET r == Compile(cs, flds)
        g1 == [g EXCEPT !.flds = flds, !.cons = r.work]
    IN [g |-> IF r.err # "" THEN [g1 EXCEPT !.pc = "raised", !.err = r.err]
              ELSE Scan(g1, "pull", t),
        caller |-> r.caller]

\* mutant of CheckHeader: a missing expected header is compared with the
\* table's header as if it were one
CheckHeaderComparesNone(g, t, cs, h) ==
    LET g1 == [g EXCEPT !.pulled = 1]
    IN IF h = NoneV \/ MapText(h[2]) # MapText(t.hdr)
       THEN [g |-> Yield(g1, "header",
                         Problem(StrV("__header__"), 0, NoneV, NoneV,
                                 ErrorName(Ok(BoolV(FALSE))))),
             caller |-> cs]
       ELSE Setup(g1, EffectiveFlds(MapText(h[2]), MapText(t.hdr)), t, cs)

\* lines 92-103: the table's header is pulled and checked against the
\* expected header h
CheckHeader(g, t, cs, h) ==
    LET g1 == [g EXCEPT !.pulled = 1]
    IN IF h = NoneV THEN Setup(g1, MapText(t.hdr), t, cs)
       ELSE IF MapText(h[2]) # MapText(t.hdr)
            THEN [g |-> Yield(g1, "header",
                              Problem(StrV("__header__"), 0, NoneV, NoneV,
                                      ErrorName(Ok(BoolV(FALSE))))),
                  caller |-> cs]
            ELSE Setup(g1, EffectiveFlds(MapText(h[2]), MapText(t.hdr)), t, cs)

\* mutant of Resume: a row of the wrong length is not given to the constraints
ResumeSkipsBadLength(g, t, cs, h) ==
    CASE g.pc = "start" -> [g |-> Yield(g, "outhdr", outhdr), caller |-> cs]
      [] g.pc = "outhdr" -> CheckHeader(g, t, cs, h)
      [] g.pc = "header" -> Setup(g, EffectiveFlds(MapText(h[2]), MapText(t.hdr)), t, cs)
      [] g.pc = "len" -> [g |-> Scan(g, "pull", t), caller |-> cs]
      [] g.pc = "getter" -> [g |-> Scan([g EXCEPT !.c = @ + 1], "cons", t), caller |-> cs]
      [] g.pc = "test" -> [g |-> Scan(g, "assertion", t), caller |-> cs]
      [] g.pc = "assertion" -> [g |-> Scan([g EXCEPT !.c = @ + 1], "cons", t), caller |-> cs]

\* mutant of Resume: a failed getter ends the checks of its row
ResumeGetterEndsRow(g, t, cs, h) ==
    CASE g.pc = "start" -> [g |-> Yield(g, "outhdr", outhdr), caller |-> cs]
      [] g.pc = "outhdr" -> CheckHeader(g, t, cs, h)
      [] g.pc = "header" -> Setup(g, EffectiveFlds(MapText(h[2]), MapText(t.hdr)), t, cs)
      [] g.pc = "len" -> [g |-> Scan(g, "cons", t), caller |-> cs]
      [] g.pc = "getter" -> [g |-> Scan(g, "pull", t), caller |-> cs]
      [] g.pc = "test" -> [g |-> Scan(g, "assertion", t), caller |-> cs]
      [] g.pc = "assertion" -> [g |-> Scan([g EXCEPT !.c = @ + 1], "cons", t), caller |-> cs]

\* mutant of Resume: a test that raised ends the checks of its constraint
ResumeTestShortCircuits(g, t, cs, h) ==
    CASE g.pc = "start" -> [g |-> Yield(g, "outhdr", outhdr), caller |-> cs]
      [] g.pc = "outhdr" -> CheckHeader(g, t, cs, h)
      [] g.pc = "header" -> Setup(g, EffectiveFlds(MapText(h[2]), MapText(t.hdr)), t, cs)
      [] g.pc = "len" -> [g |-> Scan(g, "cons", t), caller |-> cs]
      [] g.pc = "getter" -> [g |-> Scan([g EXCEPT !.c = @ + 1], "cons", t), caller |-> cs]
      [] g.pc = "test" -> [g |-> Scan([g EXCEPT !.c = @ + 1], "cons", t), caller |-> cs]
      [] g.pc = "assertion" -> [g |-> Scan([g EXCEPT !.c = @ + 1], "cons", t), caller |-> cs]

\* mutant of Resume: after a failed getter the test and the assertion are
\* still made, on None
ResumeGetterFallsThrough(g, t, cs, h) ==
    CASE g.pc = "start" -> [g |-> Yield(g, "outhdr", outhdr), caller |-> cs]
      [] g.pc = "outhdr" -> CheckHeader(g, t, cs, h)
      [] g.pc = "header" -> Setup(g, EffectiveFlds(MapText(h[2]), MapText(t.hdr)), t, cs)
      [] g.pc = "len" -> [g |-> Scan(g, "cons", t), caller |-> cs]
      [] g.pc = "getter" -> [g |-> Scan([g EXCEPT !.target = NoneV], "test", t), caller |-> cs]
      [] g.pc = "test" -> [g |-> Scan(g, "assertion", t), caller |-> cs]
      [] g.pc = "assertion" -> [g |-> Scan([g EXCEPT !.c = @ + 1], "cons", t), caller |-> cs]

\* mutant of Resume: the generator ends after the first problem of a row of
\* the wrong length
ResumeStopsAfterLen(g, t, cs, h) ==
    CASE g.pc = "start" -> [g |-> Yield(g, "outhdr", outhdr), caller |-> cs]
      [] g.pc = "outhdr" -> CheckHeader(g, t, cs, h)
      [] g.pc = "header" -> Setup(g, EffectiveFlds(MapText(h[2]), MapText(t.hdr)), t, cs)
      [] g.pc = "len" -> [g |-> [g EXCEPT !.pc = "done"], caller |-> cs]
      [] g.pc = "getter" -> [g |-> Scan([g EXCEPT !.c = @ + 1], "cons", t), caller |-> cs]
      [] g.pc = "test" -> [g |-> Scan(g, "assertion", t), caller |-> cs]
      [] g.pc = "assertion" -> [g |-> Scan([g EXCEPT !.c = @ + 1], "cons", t), caller |-> cs]

\* next(generator): the generator runs from where it is suspended to its
\* next yield, to its end or to an exception
Resume(g, t, cs, h) ==
    CASE g.pc = "start" -> [g |-> Yield(g, "outhdr", outhdr), caller |-> cs]
      [] g.pc = "outhdr" -> CheckHeader(g, t, cs, h)
      [] g.pc = "header" -> Setup(g, EffectiveFlds(MapText(h[2]), MapText(t.hdr)), t, cs)
      [] g.pc = "len" -> [g |-> Scan(g, "cons", t), caller |-> cs]
      [] g.pc = "getter" -> [g |-> Scan([g EXCEPT !.c = @ + 1], "cons", t), caller |-> cs]
      [] g.pc = "test" -> [g |-> Scan(g, "assertion", t), caller |-> cs]
      [] g.pc = "assertion" -> [g |-> Scan([g EXCEPT !.c = @ + 1], "cons", t), caller |-> cs]

(***************************************************************************)
(* The inputs: tables, expected headers and constraints.                   *)
(***************************************************************************)
SeqsUpTo(S, n) == UNION {[1..k -> S] : k \in 0..n}

Constraint(name, field, optional, getter, test, assertion) ==
    [name |-> name, field |-> field, optional |-> optional, getter |-> getter,
     test |-> test, assertion |-> assertion]

\* dict(name='a_int', field='a', test=int)
K_a_int == Constraint(StrV("a_int"), StrV("a"), ABSENT, ABSENT, Fn("int"), ABSENT)
\* dict(name='b_enum', field='b', optional=False, test=int, assertion=enum)
K_b_enum == Constraint(StrV("b_enum"), StrV("b"), BoolV(FALSE), ABSENT, Fn("int"), Fn("enum"))
\* dict(name='b_opt', field='b', optional=True, test=int)
K_b_opt == Constraint(StrV("b_opt"), StrV("b"), BoolV(TRUE), ABSENT, Fn("int"), ABSENT)
\* dict(name='not_none', assertion=not_none)
K_not_none == Constraint(StrV("not_none"), ABSENT, ABSENT, ABSENT, ABSENT, Fn("not_none"))
\* dict(name='second', getter=g_second, test=noop, assertion=enum)
K_second == Constraint(StrV("second"), ABSENT, ABSENT, Fn("g_second"), Fn("noop"), Fn("enum"))
\* dict(name='pair', field=('a', 'b'), optional=False, assertion=not_none)
K_pair == Constraint(StrV("pair"), TupV(<<StrV("a"), StrV("b")>>), BoolV(FALSE), ABSENT,
                     ABSENT, Fn("not_none"))

ConstraintPalette == {K_a_int, K_b_enum, K_b_opt, K_not_none, K_second, K_pair}

RowPalette == { <<IntV(1), IntV(1)>>, <<StrV("x"), NoneV>>, <<IntV(1)>> }

H_ab == <<StrV("a"), StrV("b")>>
H_ba == <<StrV("b"), StrV("a")>>
H_ac == <<StrV("a"), StrV("c")>>
H_a == <<StrV("a")>>
H_1b == <<IntV(1), StrV("b")>>
H_s1b == <<StrV("1"), StrV("b")>>

\* <<the table's header, the expected header>>
HeaderCases ==
    { <<H_ab, NoneV>>, <<H_a, NoneV>>, <<H_1b, NoneV>>,
      <<H_ab, TupV(H_ab)>>, <<H_ba, TupV(H_ab)>>, <<H_ac, TupV(H_ab)>>, <<H_a, TupV(H_ab)>>,
      <<H_1b, TupV(H_s1b)>> }

ConstraintArgs == {NoneV} \cup {ListV(s) : s \in SeqsUpTo(ConstraintPalette, MaxConstraints)}

\* ProblemsView.__init__: the view keeps its three arguments; no pass yet
Init ==
    /\ \E hc \in HeaderCases, rows \in SeqsUpTo(RowPalette, MaxRows) :
          /\ table = [hdr |-> hc[1], rows |-> rows]
          /\ header = hc[2]
    /\ constraints \in ConstraintArgs
    /\ passes = <<>>

\* mutant of Iter: the view hands out the position of its latest generator
\* again instead of starting a new one
IterCached(limit) ==
    /\ Len(passes) < limit
    /\ passes' = Append(passes,
                        IF passes = <<>> THEN NewPass
                        ELSE [passes[Len(passes)] EXCEPT !.out = <<>>, !.sites = <<>>,
                                                         !.calls = <<>>])
    /\ UNCHANGED <<table, constraints, header>>

\* ProblemsView.__iter__: a new generator over the view's arguments
Iter(limit) ==
    /\ Len(passes) < limit
    /\ passes' = Append(passes, NewPass)
    /\ UNCHANGED <<table, constraints, header>>

\* next() on the generator of pass p
PullNext(p) ==
    /\ passes[p].pc \notin {"done", "raised"}
    /\ LET r == Resume(passes[p], table, constraints, header)
       IN /\ passes' = [passes EXCEPT ![p] = r.g]
          /\ constraints' = r.caller
    /\ UNCHANGED <<table, header>>

Next ==
    \/ Iter(1)
    \/ \E p \in 1..Len(passes) : PullNext(p)

Spec == Init /\ [][Next]_vars

(***************************************************************************)
(* One view iterated several times, the passes interleaved at will.        *)
(***************************************************************************)
T_rows == { <<>>, << <<IntV(1), IntV(1)>> >>, << <<StrV("x"), NoneV>>, <<IntV(1)>> >>,
            << <<IntV(1)>>, <<IntV(1), IntV(1)>> >> }

ViewHeaderCases == { <<H_ab, NoneV>>, <<H_a, NoneV>>, <<H_ba, TupV(H_ab)>> }

ViewConstraintArgs ==
    { NoneV, ListV(<<K_b_enum, K_second>>), ListV(<<K_b_opt, K_a_int>>),
      ListV(<<K_not_none, K_pair>>), ListV(<<K_a_int, K_b_enum>>) }

InitView ==
    /\ \E hc \in ViewHeaderCases, rows \in T_rows :
          /\ table = [hdr |-> hc[1], rows |-> rows]
          /\ header = hc[2]
    /\ constraints \in ViewConstraintArgs
    /\ passes = <<>>

NextView ==
    \/ Iter(MaxPasses)
    \/ \E p \in 1..Len(passes) : PullNext(p)

SpecView == InitView /\ [][NextView]_vars

(***************************************************************************)
(* One pass over constraints of every shape: several field names, an       *)
(* optional flag on a field that is present, a getter next to a field, no  *)
(* test and no assertion, a field whose name is the empty text.            *)
(***************************************************************************)
\* dict(name='pair_opt', field=('b', 'a'), optional=True, test=int, assertion=not_none)
K_pair_opt == Constraint(StrV("pair_opt"), TupV(<<StrV("b"), StrV("a")>>), BoolV(TRUE), ABSENT,
                         Fn("int"), Fn("not_none"))
\* dict(name='pair_omit', field=('a', 'b'), assertion=not_none)
K_pair_omit == Constraint(StrV("pair_omit"), TupV(<<StrV("a"), StrV("b")>>), ABSENT, ABSENT,
                          ABSENT, Fn("not_none"))
\* dict(name='a_both', field='a', test=int, assertion=not_none)
K_a_both == Constraint(StrV("a_both"), StrV("a"), ABSENT, ABSENT, Fn("int"), Fn("not_none"))
\* dict(name='a_opt', field='a', optional=True, test=int)
K_a_opt == Constraint(StrV("a_opt"), StrV("a"), BoolV(TRUE), ABSENT, Fn("int"), ABSENT)
\* dict(name='bare', field='b')
K_bare == Constraint(StrV("bare"), StrV("b"), BoolV(FALSE), ABSENT, ABSENT, ABSENT)
\* dict(name='a_second', field='a', getter=g_second, test=int)
K_a_second == Constraint(StrV("a_second"), StrV("a"), ABSENT, Fn("g_second"), Fn("int"), ABSENT)
\* dict(name='empty', field='', test=int)
K_empty == Constraint(StrV("empty"), StrV(""), ABSENT, ABSENT, Fn("int"), ABSENT)

ScanPalette ==
    {K_pair, K_pair_opt, K_pair_omit, K_a_both, K_a_opt, K_bare, K_a_second, K_empty,
     K_b_enum, K_second}

H_eb == <<StrV(""), StrV("b")>>

ScanHeaderCases == { <<H_ab, NoneV>>, <<H_ba, TupV(H_ab)>>, <<H_eb, NoneV>> }

ScanConstraintArgs == {NoneV} \cup {ListV(s) : s \in SeqsUpTo(ScanPalette, MaxConstraints)}

InitScan ==
    /\ \E hc \in ScanHeaderCases, rows \in T_rows :
          /\ table = [hdr |-> hc[1], rows |-> rows]
          /\ header = hc[2]
    /\ constraints \in ScanConstraintArgs
    /\ passes = <<>>

SpecScan == InitScan /\ [][Next]_vars

\* the constraint arguments of the passes that are followed to their end
LiveConstraintArgs ==
    { NoneV, ListV(<<K_b_enum, K_second>>), ListV(<<K_a_both, K_pair>>),
      ListV(<<K_a_second, K_bare>>), ListV(<<K_pair_omit>>), ListV(<<K_a_opt, K_b_enum>>),
      ListV(<<K_pair_opt, K_empty>>) }

InitLive ==
    /\ \E hc \in ScanHeaderCases, rows \in T_rows :
          /\ table = [hdr |-> hc[1], rows |-> rows]
          /\ header = hc[2]
    /\ constraints \in LiveConstraintArgs
    /\ passes = <<>>

\* the consumer keeps asking for the next record until the generator ends
SpecScanLive == InitLive /\ [][Next]_vars /\ WF_vars(Next)

(***************************************************************************)
(* Vocabulary of the properties.                                           *)
(***************************************************************************)
Passes == 1..Len(passes)
Range(f) == {f[k] : k \in 1..Len(f)}
Suspended == {"len", "getter", "test", "assertion"}
ConstraintSites == {"getter", "test", "assertion"}

\* the field list the claims call effective, from the view's arguments
EffList == IF header = NoneV THEN MapText(table.hdr) ELSE MapText(header[2])

\* the number of constraints the caller declared
NumDeclared == IF HasConstraints(constraints) THEN Len(constraints[2]) ELSE 0

\* the columns of a record
ColName(r) == r[1]
ColRow(r) == r[2]
ColField(r) == r[3]
ColValue(r) == r[4]
ColError(r) == r[5]

\* the yields of a history entry <<site, row, constraint>> in program order
SiteRank(site) == CASE site = "getter" -> 1 [] site = "test" -> 2 [] site = "assertion" -> 3
                    [] OTHER -> 0

SiteBefore(a, b) ==
    \/ a[2] < b[2]
    \/ a[2] = b[2] /\ a[3] < b[3]
    \/ a[2] = b[2] /\ a[3] = b[3] /\ SiteRank(a[1]) < SiteRank(b[1])

\* the record at position j of pass g carries the name and the row index of
\* the yield that produced it
RecordOfSite(g, j) ==
    LET st == g.sites[j]
        r == g.out[j]
    IN CASE st[1] = "header" -> ColName(r) = StrV("__header__") /\ ColRow(r) = IntV(0)
         [] st[1] = "len" -> ColName(r) = StrV("__len__") /\ ColRow(r) = IntV(st[2])
         [] OTHER -> /\ st[3] \in 1..NumDeclared
                     /\ ColName(r) = Get(constraints[2][st[3]].name)
                     /\ ColRow(r) = IntV(st[2])

\* C1: after the report header the records come in the order __header__
\* problem, then rows by ascending index; within a row the __len__ problem,
\* then the constraints in declaration order; for one constraint the test
\* problem before the assertion problem.
C1_Order ==
    \A p \in Passes :
        LET g == passes[p]
        IN \A j \in 1..Len(g.out) :
              /\ (j = 1) <=> (g.sites[j][1] = "outhdr")
              /\ j = 1 => g.out[j] = outhdr
              /\ j > 1 => RecordOfSite(g, j)
              /\ \A k \in (j + 1)..Len(g.out) : j > 1 => SiteBefore(g.sites[j], g.sites[k])

\* a pass with a header problem and, in one row, a __len__ problem, the test
\* and the assertion problem of one constraint and a problem of a later one
C1_Witness ==
    \E p \in Passes :
        LET g == passes[p]
        IN /\ Len(g.out) >= 6
           /\ g.sites[2][1] = "header"
           /\ \E j \in 3..(Len(g.out) - 3) :
                 /\ g.sites[j][1] = "len"
                 /\ g.sites[j + 1][1] = "test"
                 /\ g.sites[j + 2][1] = "assertion"
                 /\ g.sites[j + 2][3] = g.sites[j + 1][3]
                 /\ g.sites[j + 3][2] = g.sites[j][2]
                 /\ g.sites[j + 3][3] > g.sites[j + 2][3]

\* the expected and the actual header differ in count, names or order once
\* both are turned into text
HeaderDiffers ==
    \/ Len(header[2]) # Len(table.hdr)
    \/ \E k \in 1..Len(table.hdr) : text_type(header[2][k]) # text_type(table.hdr[k])

HeaderRecords(g) == {j \in 1..Len(g.out) : ColName(g.out[j]) = StrV("__header__")}

LenRecords(g, r) ==
    {j \in 1..Len(g.out) : ColName(g.out[j]) = StrV("__len__") /\ ColRow(g.out[j]) = IntV(r)}

\* C2: with an expected header, a differing header gives exactly one
\* __header__ problem (row 0, no field, no value) ahead of every row problem,
\* an equal one gives none; either way the scan goes on with the expected
\* header as the field list of the row-length check and of the getters.
C2_Header ==
    \A p \in Passes :
        LET g == passes[p]
        IN (header # NoneV /\ g.pc \notin {"start", "outhdr"}) =>
              /\ HeaderDiffers =>
                    /\ HeaderRecords(g) = {2}
                    /\ ColRow(g.out[2]) = IntV(0)
                    /\ ColField(g.out[2]) = NoneV
                    /\ ColValue(g.out[2]) = NoneV
              /\ ~HeaderDiffers => HeaderRecords(g) = {}
              /\ g.pc # "header" => g.flds = MapText(header[2])
              /\ \A r \in 1..(g.pulled - 1) :
                    (LenRecords(g, r) # {}) <=> (Len(table.rows[r]) # Len(header[2]))
              /\ (g.pc \in Suspended \cup {"done"} /\ HasConstraints(g.cons)) =>
                    \A c \in 1..Len(g.cons[2]) :
                        LET k == g.cons[2][c]
                        IN (constraints[2][c].getter = ABSENT /\ k.getter # ABSENT) =>
                              \A n \in 1..Len(k.getter[2]) :
                                  MapText(header[2])[k.getter[2][n] + 1] = SpecList(k.field)[n]
              /\ g.pc = "done" => g.pulled = Len(table.rows) + 1

\* a finished pass whose header differed, with a row-length problem counted
\* against the expected header and a getter resolved against it
C2_Witness ==
    \E p \in Passes :
        LET g == passes[p]
        IN /\ header # NoneV /\ HeaderDiffers /\ g.pc = "done"
           /\ Len(header[2]) # Len(table.hdr)
           /\ \E r \in 1..Len(table.rows) :
                 LenRecords(g, r) # {} /\ Len(table.rows[r]) = Len(table.hdr)
           /\ HasConstraints(g.cons)
           /\ \E c \in 1..Len(g.cons[2]) :
                 constraints[2][c].getter = ABSENT /\ g.cons[2][c].getter # ABSENT

\* C3: a data row gives exactly one __len__ problem, with its 1-based index
\* and its length, iff its length differs from that of the effective field
\* list; with or without it the row goes through every constraint.
C3_RowLength ==
    \A p \in Passes :
        LET g == passes[p]
        IN \A r \in 1..(g.pulled - 1) :
              /\ Len(table.rows[r]) # Len(EffList) =>
                    /\ Cardinality(LenRecords(g, r)) = 1
                    /\ \A j \in LenRecords(g, r) :
                          /\ ColField(g.out[j]) = NoneV
                          /\ ColValue(g.out[j]) = IntV(Len(table.rows[r]))
              /\ Len(table.rows[r]) = Len(EffList) => LenRecords(g, r) = {}
              /\ (r < g.pulled - 1 \/ g.pc = "done") =>
                    \A c \in 1..NumDeclared : <<"getter", r, c>> \in Range(g.calls)

\* a finished pass with a row of the wrong length that every constraint saw,
\* one of them reporting a problem on it
C3_Witness ==
    \E p \in Passes :
        LET g == passes[p]
        IN /\ g.pc = "done" /\ NumDeclared >= 2
           /\ \E r \in 1..Len(table.rows) :
                 /\ LenRecords(g, r) # {}
                 /\ \A c \in 1..NumDeclared : <<"getter", r, c>> \in Range(g.calls)
                 /\ \E j \in 1..Len(g.out) : g.sites[j][2] = r /\ g.sites[j][1] = "assertion"

\* some name of the constraint's field is not in the field list
FieldMissing(field, flds) ==
    \E n \in 1..Len(SpecList(field)) : ~InList(SpecList(field)[n], flds)

\* the declared constraint at position c names a missing field, without a
\* getter of its own
NamesMissingField(c) ==
    LET k == constraints[2][c]
    IN k.getter = ABSENT /\ k.field # ABSENT /\ FieldMissing(k.field, EffList)

IsOptional(c) == constraints[2][c].optional # ABSENT /\ Truthy(constraints[2][c].optional)

\* C4: an optional constraint whose field is missing from the effective
\* field list produces no problem in any row.
C4_OptionalDropped ==
    \A p \in Passes :
        LET g == passes[p]
        IN \A c \in 1..NumDeclared :
              (NamesMissingField(c) /\ IsOptional(c)) =>
                  \A j \in 1..Len(g.out) :
                      ~(g.sites[j][1] \in ConstraintSites /\ g.sites[j][3] = c)

\* C5: a constraint that names a missing field and is not optional makes the
\* pass fail in the setup of the getters with the field lookup error, before
\* any data row is pulled and without any row problem.
C5_RequiredFieldFails ==
    \A p \in Passes :
        LET g == passes[p]
        IN (/\ g.pc \notin {"start", "outhdr", "header"}
            /\ \E c \in 1..NumDeclared : NamesMissingField(c) /\ ~IsOptional(c)) =>
              /\ g.pc = "raised"
              /\ g.err = "FieldSelectionError"
              /\ g.pulled = 1
              /\ \A j \in 1..Len(g.out) : g.sites[j][2] = 0

\* the outcome of the call that history entry st = <<site, row, constraint>>
\* of pass g records
OutcomeAt(g, st) ==
    LET k == g.cons[2][st[3]]
        got == ApplyGetter(k.getter, table.rows[st[2]])
    IN CASE st[1] = "getter" -> got
         [] st[1] = "test" -> Call(k.test[2], got[2])
         [] st[1] = "assertion" -> Call(k.assertion[2], got[2])

Fails(o) == Raised(o) \/ ~Truthy(o[2])

\* the call of entry st is a failure: a raising getter or test, a raising or
\* falsy assertion
FailureAt(g, st) ==
    IF st[1] = "assertion" THEN Fails(OutcomeAt(g, st)) ELSE Raised(OutcomeAt(g, st))

\* C6: once the getters are set up nothing aborts the scan: every failing
\* getter, test or assertion is a problem record, and the checks that follow
\* it (same row, later rows, row lengths) are all made.
C6_Isolation ==
    \A p \in Passes :
        LET g == passes[p]
        IN /\ g.pc = "raised" => (g.pulled = 1 /\ g.calls = <<>>)
           /\ \A n \in 1..Len(g.calls) : FailureAt(g, g.calls[n]) => g.calls[n] \in Range(g.sites)
           /\ g.pc = "done" =>
                 /\ g.pulled = Len(table.rows) + 1
                 /\ \A r \in 1..Len(table.rows) :
                       /\ (Len(table.rows[r]) # Len(g.flds)) => LenRecords(g, r) # {}
                       /\ \A c \in 1..NumDeclared :
                             LET k == g.cons[2][c]
                             IN /\ <<"getter", r, c>> \in Range(g.calls)
                                /\ ~Raised(ApplyGetter(k.getter, table.rows[r])) =>
                                      /\ Get(k.test) # NoneV => <<"test", r, c>> \in Range(g.calls)
                                      /\ Get(k.assertion) # NoneV =>
                                            <<"assertion", r, c>> \in Range(g.calls)

\* a finished pass in which a getter failed on a row that is not the last,
\* for a constraint that is not the last, and a later row reported problems
C6_Witness ==
    \E p \in Passes :
        LET g == passes[p]
        IN /\ g.pc = "done"
           /\ \E j \in 1..Len(g.out) :
                 /\ g.sites[j][1] = "getter"
                 /\ g.sites[j][3] < NumDeclared
                 /\ g.sites[j][2] < Len(table.rows)
                 /\ \E n \in (j + 1)..Len(g.out) : g.sites[n][2] = g.sites[j][2]
                 /\ \E n \in (j + 1)..Len(g.out) :
                       g.sites[n][2] > g.sites[j][2] /\ g.sites[n][1] = "len"

\* C7: the pass is lazy: the report header is delivered before the table is
\* read, and after any record the rows pulled are those up to the row that
\* produced it.
C7_Lazy ==
    \A p \in Passes :
        LET g == passes[p]
        IN /\ g.pc = "start" => (g.pulled = 0 /\ g.out = <<>>)
           /\ g.pc = "outhdr" => (g.pulled = 0 /\ g.out = <<outhdr>>)
           /\ g.pc = "header" => (g.pulled = 1 /\ Len(g.out) = 2)
           /\ g.pc \in Suspended => ColRow(g.out[Len(g.out)]) = IntV(g.pulled - 1)
           /\ g.pulled <= Len(table.rows) + 1

\* a consumer that has stopped after a row problem, rows being left unread
C7_Witness ==
    \E p \in Passes :
        LET g == passes[p]
        IN /\ g.pc \in Suspended
           /\ g.pulled - 1 >= 1
           /\ g.pulled - 1 < Len(table.rows)
           /\ Len(g.out) >= 2

IsPrefix(a, b) == Len(a) <= Len(b) /\ \A k \in 1..Len(a) : a[k] = b[k]

\* C8: two iterations of one view give the same records: passes agree on
\* every record both have delivered, end alike, and one that has delivered
\* as many records as another is at the same point of a scan of its own.
C8_Idempotent ==
    \A p \in Passes : \A q \in Passes :
        LET a == passes[p]
            b == passes[q]
        IN /\ IsPrefix(a.out, b.out) \/ IsPrefix(b.out, a.out)
           /\ (a.pc \in {"done", "raised"} /\ b.pc \in {"done", "raised"}) =>
                 (a.out = b.out /\ a.pc = b.pc /\ a.err = b.err)
           /\ (Len(a.out) = Len(b.out) /\ a.pc \notin {"done", "raised"}
               /\ b.pc \notin {"done", "raised"}) => a = b

\* a finished pass next to one abandoned midway, begun before the first ended
C8_Witness ==
    \E p \in Passes : \E q \in Passes :
        /\ p < q
        /\ passes[p].pc \in Suspended
        /\ passes[q].pc = "done"
        /\ Len(passes[q].out) > Len(passes[p].out)
        /\ Len(passes[p].out) >= 3

SymbolicKinds ==
    {"HeaderMismatch", "RowLengthMismatch", "ExtractionFailure", "TestFailure",
     "AssertionFailure"}

SymbolicKind(site) ==
    CASE site = "header" -> "HeaderMismatch"
      [] site = "len" -> "RowLengthMismatch"
      [] site = "getter" -> "ExtractionFailure"
      [] site = "test" -> "TestFailure"
      [] site = "assertion" -> "AssertionFailure"

\* C9 as stated: the error column is the symbolic kind of the failure site.
C9_SymbolicKinds ==
    \A p \in Passes :
        \A j \in 2..Len(passes[p].out) :
            ColError(passes[p].out[j]) = StrV(SymbolicKind(passes[p].sites[j][1]))

ExceptionNames == {"AssertionError", "TypeError", "ValueError", "IndexError"}

\* C9 as amended: the error column is never a symbolic kind but the type name
\* of an exception: AssertionError for the header check and for the
\* row-length check; expected header ('a','b') against actual header
\* ('a','c') gives the first problem ('__header__', 0, None, None,
\* 'AssertionError').
C9_TypeNames ==
    \A p \in Passes :
        LET g == passes[p]
        IN /\ \A j \in 2..Len(g.out) :
                 /\ ColError(g.out[j]) \notin {StrV(k) : k \in SymbolicKinds}
                 /\ ColError(g.out[j]) \in {StrV(e) : e \in ExceptionNames}
                 /\ g.sites[j][1] \in {"header", "len"} =>
                       ColError(g.out[j]) = StrV("AssertionError")
           /\ (table.hdr = H_ac /\ header = TupV(H_ab) /\ Len(g.out) >= 2) =>
                 g.out[2] = <<StrV("__header__"), IntV(0), NoneV, NoneV, StrV("AssertionError")>>

\* the example of C9: the header problem of ('a','c') against ('a','b'),
\* followed by a row-length problem
C9_Witness ==
    \E p \in Passes :
        LET g == passes[p]
        IN /\ table.hdr = H_ac /\ header = TupV(H_ab)
           /\ Len(g.out) >= 3
           /\ g.sites[2][1] = "header"
           /\ g.sites[3][1] = "len"

\* C10: the error column is the type name of the exception caught at the
\* failure site: AssertionError for a header mismatch, a row-length mismatch
\* and a falsy assertion, the raised exception's own type name for a raising
\* getter, test or assertion.
C10_ErrorIsTypeName ==
    \A p \in Passes :
        LET g == passes[p]
        IN \A j \in 2..Len(g.out) :
              LET st == g.sites[j]
                  e == ColError(g.out[j])
              IN IF st[1] \in {"header", "len"} THEN e = StrV("AssertionError")
                 ELSE LET o == OutcomeAt(g, st)
                      IN IF Raised(o) THEN e = StrV(o[2])
                         ELSE st[1] = "assertion" /\ ~Truthy(o[2]) /\ e = StrV("AssertionError")

\* one report with a test that raised ValueError, a getter that raised
\* IndexError and an assertion that returned a falsy value
C10_Witness ==
    \E p \in Passes :
        LET g == passes[p]
        IN /\ \E j \in 2..Len(g.out) :
                 g.sites[j][1] = "test" /\ ColError(g.out[j]) = StrV("ValueError")
           /\ \E j \in 2..Len(g.out) :
                 g.sites[j][1] = "getter" /\ ColError(g.out[j]) = StrV("IndexError")
           /\ \E j \in 2..Len(g.out) :
                 /\ g.sites[j][1] = "assertion"
                 /\ ~Raised(OutcomeAt(g, g.sites[j]))
                 /\ ColError(g.out[j]) = StrV("AssertionError")

\* the records of pass g that constraint c produced on row r
SiteRecords(g, r, c) ==
    {j \in 1..Len(g.out) : g.sites[j][1] \in ConstraintSites /\ g.sites[j][2] = r
                           /\ g.sites[j][3] = c}

\* C11: when the test of a constraint raises and its assertion fails on the
\* same row, the row has exactly two problems of that constraint, the test
\* problem and right after it the assertion problem, alike in name, row
\* index, field and value.
C11_TestThenAssertion ==
    \A p \in Passes :
        LET g == passes[p]
        IN \A j \in 2..Len(g.out) :
              LET st == g.sites[j]
              IN (/\ st[1] = "test"
                  /\ Get(g.cons[2][st[3]].assertion) # NoneV
                  /\ Fails(OutcomeAt(g, <<"assertion", st[2], st[3]>>))) =>
                    \/ j = Len(g.out) /\ g.pc = "test"
                    \/ /\ j < Len(g.out)
                       /\ g.sites[j + 1] = <<"assertion", st[2], st[3]>>
                       /\ SiteRecords(g, st[2], st[3]) = {j, j + 1}
                       /\ ColName(g.out[j + 1]) = ColName(g.out[j])
                       /\ ColRow(g.out[j + 1]) = ColRow(g.out[j])
                       /\ ColField(g.out[j + 1]) = ColField(g.out[j])
                       /\ ColValue(g.out[j + 1]) = ColValue(g.out[j])

\* a finished pass with a test that raised followed by an assertion that
\* raised, and another test that raised followed by a falsy assertion
C11_Witness ==
    \E p \in Passes :
        LET g == passes[p]
        IN /\ g.pc = "done"
           /\ \E j \in 2..(Len(g.out) - 1) :
                 /\ g.sites[j][1] = "test" /\ g.sites[j + 1][1] = "assertion"
                 /\ Raised(OutcomeAt(g, g.sites[j + 1]))
           /\ \E j \in 2..(Len(g.out) - 1) :
                 /\ g.sites[j][1] = "test" /\ g.sites[j + 1][1] = "assertion"
                 /\ ~Raised(OutcomeAt(g, g.sites[j + 1]))

\* the data rows whose length is not that of the table's own header
BadLengthRows == {r \in 1..Len(table.rows) : Len(table.rows[r]) # Len(table.hdr)}

\* C12: without constraints (None or an empty list) and without an expected
\* header the report is the report header followed by the __len__ problems
\* only, one for each data row whose length differs from that of the table's
\* own header, and never a __header__ problem; a table whose rows all have
\* the header's length gives the report header alone.
C12_StructureOnly ==
    \A p \in Passes :
        LET g == passes[p]
        IN (header = NoneV /\ ~HasConstraints(constraints)) =>
              /\ g.pc \notin {"header", "raised"}
              /\ \A j \in 2..Len(g.out) :
                    /\ ColName(g.out[j]) = StrV("__len__")
                    /\ \E r \in BadLengthRows :
                          g.out[j] = <<StrV("__len__"), IntV(r), NoneV, IntV(Len(table.rows[r])),
                                       StrV("AssertionError")>>
              /\ \A r \in 1..(g.pulled - 1) :
                    Cardinality(LenRecords(g, r)) = IF r \in BadLengthRows THEN 1 ELSE 0
              /\ g.pc = "done" => Len(g.out) = 1 + Cardinality(BadLengthRows)

\* a finished pass without constraints and expected header over a row of
\* the header's length and a row of another length
C12_Witness ==
    \E p \in Passes :
        LET g == passes[p]
        IN /\ header = NoneV /\ ~HasConstraints(constraints)
           /\ g.pc = "done"
           /\ Len(g.out) = 2
           /\ Len(table.rows) = 2

\* C13: no pass, finished, abandoned or failed, changes a constraint dict of
\* the caller: the getters go to the copies made for the pass.
C13_CallerUnchanged == [][constraints' = constraints]_vars

\* a finished pass and an abandoned one, each holding a getter it has set up
\* for a constraint that the caller gave without one
C13_Witness ==
    \E p \in Passes : \E q \in Passes :
        /\ passes[p].pc = "done"
        /\ passes[q].pc \in Suspended
        /\ \E c \in 1..NumDeclared :
              /\ constraints[2][c].getter = ABSENT
              /\ passes[p].cons[2][c].getter # ABSENT
              /\ passes[q].cons[2][c].getter # ABSENT

\* C14: a getter that fails on a row gives exactly one problem for its
\* constraint and that row, with the constraint's name, the row index, the
\* constraint's field or None, the value None and the exception's type name;
\* neither the test nor the assertion is called, and the next constraint of
\* the row is evaluated.
C14_GetterFailure ==
    \A p \in Passes :
        LET g == passes[p]
        IN \A n \in 1..Len(g.calls) :
              LET st == g.calls[n]
                  k == constraints[2][st[3]]
              IN (st[1] = "getter" /\ Raised(OutcomeAt(g, st))) =>
                    /\ Cardinality(SiteRecords(g, st[2], st[3])) = 1
                    /\ \A j \in SiteRecords(g, st[2], st[3]) :
                          /\ g.sites[j] = st
                          /\ g.out[j] = <<Get(k.name), IntV(st[2]), Get(k.field), NoneV,
                                          StrV(OutcomeAt(g, st)[2])>>
                    /\ <<"test", st[2], st[3]>> \notin Range(g.calls)
                    /\ <<"assertion", st[2], st[3]>> \notin Range(g.calls)
                    /\ n < Len(g.calls) =>
                          g.calls[n + 1] \in {<<"getter", st[2], st[3] + 1>>,
                                              <<"getter", st[2] + 1, 1>>}
                    /\ (st[3] < NumDeclared /\ (n < Len(g.calls) \/ g.pc = "done")) =>
                          g.calls[n + 1] = <<"getter", st[2], st[3] + 1>>

\* a finished pass in which the getter of a constraint with a field failed,
\* the constraint having a test, and the next constraint was evaluated
C14_Witness ==
    \E p \in Passes :
        LET g == passes[p]
        IN /\ g.pc = "done"
           /\ \E n \in 1..(Len(g.calls) - 1) :
                 /\ g.calls[n][1] = "getter"
                 /\ Raised(OutcomeAt(g, g.calls[n]))
                 /\ constraints[2][g.calls[n][3]].field # ABSENT
                 /\ constraints[2][g.calls[n][3]].test # ABSENT
                 /\ g.calls[n + 1] = <<"getter", g.calls[n][2], g.calls[n][3] + 1>>

\* the declared constraint at position c has no getter of its own and names
\* only fields of the effective field list
NamesPresentFields(c) ==
    LET k == constraints[2][c]
    IN k.getter = ABSENT /\ k.field # ABSENT /\ ~FieldMissing(k.field, EffList)

\* what the claims expect of the getter of a field constraint: the value at
\* the field's position for one name, the tuple of the values at the fields'
\* positions, in the order given, for a collection of names
ExpectedTarget(field, row) ==
    IF field[1] = "tuple"
    THEN TupV([n \in 1..Len(field[2]) |-> RecordItem(row, ListIndex(field[2][n], EffList))])
    ELSE RecordItem(row, ListIndex(field, EffList))

\* C15: for a constraint without a getter of its own whose field names are
\* all in the effective field list, the setup builds a getter that returns
\* the value at the field's position (one name) or the tuple of the values
\* at the fields' positions in the order given (several names), and every
\* row is evaluated through it.
C15_FieldGetter ==
    \A p \in Passes :
        LET g == passes[p]
        IN /\ g.pc = "raised" => \E c \in 1..NumDeclared : NamesMissingField(c)
           /\ g.pc \in Suspended \cup {"done"} =>
                 \A c \in 1..NumDeclared :
                     NamesPresentFields(c) =>
                        /\ g.cons[2][c].getter # ABSENT
                        /\ \A r \in 1..Len(table.rows) :
                              ApplyGetter(g.cons[2][c].getter, table.rows[r])
                                 = Ok(ExpectedTarget(constraints[2][c].field, table.rows[r]))
                        /\ \A r \in 1..(g.pulled - 2) : <<"getter", r, c>> \in Range(g.calls)

\* a result that Python's `not` takes as false
IsFalsy(v) ==
    \/ v = NoneV \/ v = BoolV(FALSE) \/ v = IntV(0) \/ v = StrV("")
    \/ (IsSeqV(v) /\ v[2] = <<>>)

\* pass g is through with constraint c on row r
Evaluated(g, r, c) ==
    \/ g.pc = "done"
    \/ g.pc \in Suspended /\ g.pulled >= 2 /\ r < g.i + 1
    \/ g.pc \in {"getter", "test", "assertion"} /\ r = g.i + 1 /\ c < g.c
    \/ g.pc = "assertion" /\ r = g.i + 1 /\ c = g.c

\* C16: after a successful extraction the test gives a problem exactly when
\* it raises, whatever it returns, and the assertion gives a problem exactly
\* when it raises or returns a falsy result; a constraint with neither gives
\* none; so a constraint gives at most two problems per row.
C16_TestAndAssertion ==
    \A p \in Passes :
        LET g == passes[p]
        IN g.pc \in Suspended \cup {"done"} =>
              \A r \in 1..Len(table.rows), c \in 1..NumDeclared :
                 LET k == g.cons[2][c]
                     got == ApplyGetter(k.getter, table.rows[r])
                     byTest == {j \in 1..Len(g.out) : g.sites[j] = <<"test", r, c>>}
                     byAssertion == {j \in 1..Len(g.out) : g.sites[j] = <<"assertion", r, c>>}
                 IN /\ Cardinality(SiteRecords(g, r, c)) <= 2
                    /\ (Evaluated(g, r, c) /\ ~Raised(got)) =>
                          /\ Cardinality(byTest) =
                                IF Get(k.test) # NoneV /\ Raised(Call(k.test[2], got[2]))
                                THEN 1 ELSE 0
                          /\ Cardinality(byAssertion) =
                                IF /\ Get(k.assertion) # NoneV
                                   /\ LET o == Call(k.assertion[2], got[2])
                                      IN Raised(o) \/ IsFalsy(o[2])
                                THEN 1 ELSE 0
                          /\ SiteRecords(g, r, c) = byTest \cup byAssertion

\* a finished pass in which a test returned a falsy result without a
\* problem, an assertion returned a falsy result with a problem, and a
\* constraint with neither test nor assertion gave nothing on a row it read
C16_Witness ==
    \E p \in Passes :
        LET g == passes[p]
        IN /\ g.pc = "done"
           /\ \E n \in 1..Len(g.calls) :
                 LET st == g.calls[n]
                 IN /\ st[1] = "test"
                    /\ ~Raised(OutcomeAt(g, st)) /\ OutcomeAt(g, st)[2] = NoneV
                    /\ st \notin Range(g.sites)
           /\ \E j \in 1..Len(g.out) :
                 /\ g.sites[j][1] = "assertion"
                 /\ ~Raised(OutcomeAt(g, g.sites[j]))
                 /\ OutcomeAt(g, g.sites[j])[2] = BoolV(FALSE)
           /\ \E c \in 1..NumDeclared :
                 /\ Get(g.cons[2][c].test) = NoneV /\ Get(g.cons[2][c].assertion) = NoneV
                 /\ <<"getter", 1, c>> \in Range(g.calls)
                 /\ SiteRecords(g, 1, c) = {}

\* C17: the value of a test or assertion problem is the extracted target
\* when the constraint has a field, and None when it has none, a getter of
\* its own or not.
C17_ValueColumn ==
    \A p \in Passes :
        LET g == passes[p]
        IN \A j \in 1..Len(g.out) :
              LET st == g.sites[j]
              IN st[1] \in {"test", "assertion"} =>
                    ColValue(g.out[j]) =
                        IF constraints[2][st[3]].field # ABSENT
                        THEN OutcomeAt(g, <<"getter", st[2], st[3]>>)[2]
                        ELSE NoneV

\* the most records a pass can give: the output header, one header problem,
\* and per data row one length problem and two problems per constraint
MaxRecords == 1 + 1 + Len(table.rows) * (1 + 2 * NumDeclared)

\* the state of a pass that has ended: the row iterator is exhausted, every
\* row went through every constraint, the records are the output header and
\* problems only, within MaxRecords, and nothing failed after the site of
\* the last record
AtEnd(g) ==
    g.pc = "done" =>
       LET last == g.sites[Len(g.out)]
       IN /\ g.pulled = Len(table.rows) + 1
          /\ \A r \in 1..Len(table.rows), c \in 1..NumDeclared :
                <<"getter", r, c>> \in Range(g.calls)
          /\ Len(g.out) <= MaxRecords
          /\ g.out[1] = outhdr
          /\ \A j \in 2..Len(g.out) :
                /\ g.sites[j][1] \in {"header", "len"} \cup ConstraintSites
                /\ ColRow(g.out[j]) = IntV(g.sites[j][2])
                /\ ColError(g.out[j])[2] \in ExceptionNames
          /\ \A r \in 1..Len(table.rows) : Len(table.rows[r]) # Len(EffList) => r <= last[2]
          /\ \A n \in 1..Len(g.calls) :
                FailureAt(g, g.calls[n]) => (g.calls[n] = last \/ SiteBefore(g.calls[n], last))

\* C18: a pass over a finite table that gets through the setup of the
\* getters ends, under a consumer that keeps pulling, when the row iterator
\* is exhausted: every row was scanned, the last record is the last problem
\* of the last failing row, and there are at most 1 + 1 + R * (1 + 2 * C)
\* records.
C18_Terminates ==
    /\ [](\A p \in Passes : AtEnd(passes[p]))
    /\ (passes # <<>>) ~> (\A p \in Passes : passes[p].pc \in {"done", "raised"})
    /\ (\E p \in Passes : passes[p].pc \in Suspended) ~> (\A p \in Passes : passes[p].pc = "done")

\* a pass that ended after two data rows, with problems of both rows, the
\* last record being an assertion problem of the last row
C18_Witness ==
    \E p \in Passes :
        LET g == passes[p]
        IN /\ g.pc = "done" /\ Len(table.rows) = 2 /\ NumDeclared = 2
           /\ Len(g.out) >= 5
           /\ g.sites[Len(g.out)] = <<"assertion", 2, 2>>
           /\ \E j \in 2..Len(g.out) : g.sites[j][2] = 1

\* the working constraint that the setup of the getters makes of the declared
\* constraint k alone: k itself, with the getter of its field when it has a
\* field, no getter of its own, and is not skipped
WorkingOf(k) ==
    IF k.getter # ABSENT \/ k.field = ABSENT THEN k
    ELSE IF ~InList(k.field, EffList) /\ Truthy(Get(k.optional)) THEN k
    ELSE [k EXCEPT !.getter = ItemGetter(asindices(EffList, k.field)[2])]

\* before the setup a pass has no field list and no working constraints and
\* has pulled at most the header; after it the field list is the effective
\* one and each working constraint is what the setup makes of its own
\* declared constraint, whatever the other constraints are
CompiledOnce(g) ==
    /\ g.pc \in {"start", "outhdr", "header"} =>
          g.flds = <<>> /\ g.cons = NoneV /\ g.pulled <= 1 /\ g.calls = <<>>
    /\ g.pc = "raised" => g.pulled = 1 /\ g.calls = <<>>
    /\ g.pc \in Suspended \cup {"done"} =>
          /\ g.flds = EffList
          /\ HasConstraints(constraints) =>
                /\ Len(g.cons[2]) = NumDeclared
                /\ \A c \in 1..NumDeclared : g.cons[2][c] = WorkingOf(constraints[2][c])

\* C19: the getters are set up once in a pass, after the header and before
\* the first data row; from then on the field list and the working
\* constraints, getters included, do not change, and the getter of one
\* constraint does not depend on the setup of another.
C19_CompiledOnce ==
    /\ [](\A p \in Passes : CompiledOnce(passes[p]))
    /\ [][\A p \in Passes :
             passes[p].pc \in Suspended =>
                /\ passes'[p].flds = passes[p].flds
                /\ passes'[p].cons = passes[p].cons]_vars

\* a pass suspended in its second data row with two working constraints that
\* the setup gave different getters
C19_Witness ==
    \E p \in Passes :
        LET g == passes[p]
        IN /\ g.pc \in Suspended /\ g.pulled = 3 /\ NumDeclared = 2
           /\ constraints[2][1].getter = ABSENT /\ constraints[2][2].getter = ABSENT
           /\ g.cons[2][1].getter # ABSENT /\ g.cons[2][2].getter # ABSENT
           /\ g.cons[2][1].getter # g.cons[2][2].getter

\* list(validate(t, cs, h)): a new generator is resumed until it ends or
\* raises; the result is its last frame
RECURSIVE Run(_, _, _, _)
Run(g, t, cs, h) ==
    IF g.pc \in {"done", "raised"} THEN g
    ELSE CHOOSE f \in {Run(r.g, t, r.caller, h) : r \in {Resume(g, t, cs, h)}} : TRUE

\* the constraints argument cs with the key optional of constraint c set to
\* o, or removed for ABSENT
WithOptional(cs, c, o) == ListV([cs[2] EXCEPT ![c].optional = o])

OptionalCases == <<ABSENT, BoolV(TRUE), BoolV(FALSE)>>

\* C20: when every field name of a constraint is in the effective field
\* list, optional=True, optional=False and no optional at all give the same
\* pass: the same records and the same end, for one name and for several.
C20_OptionalIrrelevant ==
    \A p \in Passes :
        LET g == passes[p]
        IN g.pc \in {"done", "raised"} =>
              \A c \in 1..NumDeclared :
                 (constraints[2][c].field # ABSENT
                    /\ ~FieldMissing(constraints[2][c].field, EffList)) =>
                    \A n \in 1..Len(OptionalCases) :
                       LET f == Run(NewPass, table,
                                    WithOptional(constraints, c, OptionalCases[n]), header)
                       IN f.pc = g.pc /\ f.err = g.err /\ f.out = g.out
====
